---------------------------- MODULE Spec2Model ----------------------------
(***************************************************************************)
(* A model of the request pipeline of vscode-restclient: the                *)
(* RequestController (run, rerun, cancel, runCore), the ScriptRunner, the   *)
(* RequestVariableHoverProvider, the HttpResponseWebview, the              *)
(* HttpTreeProvider and the placeholder resolver that the                  *)
(* controller's parse step relies on.                                       *)
(*                                                                         *)
(* Every `await` of the source is a suspension point: the code between two *)
(* awaits is one action of the model.                                      *)
(***************************************************************************)
EXTENDS Integers, Sequences, FiniteSets, TLC

(***************************************************************************)
(* Bounds of the model.                                                    *)
(***************************************************************************)
\* number of invocations of run()/rerun() in one behaviour
MaxRuns == 2

Runs == 1..MaxRuns
NoRequest == 0
NoResponse == 0

(***************************************************************************)
(* The blocks of the document the user can select.  A block carries the    *)
(* metadata run() reads (name, note), the request-variable references of   *)
(* its text, its pre-request scripts and the kind of its body.             *)
(***************************************************************************)
BlockTable ==
    << [doc |-> "d1", name |-> "A", note |-> FALSE, refs |-> << >>,
        scripts |-> 0, body |-> "file", malformed |-> FALSE],
       [doc |-> "d1", name |-> "B", note |-> TRUE, refs |-> <<"A", "A">>,
        scripts |-> 2, body |-> "text", malformed |-> FALSE],
       [doc |-> "d1", name |-> "", note |-> FALSE, refs |-> <<"A">>,
        scripts |-> 0, body |-> "text", malformed |-> TRUE] >>

Blocks == DOMAIN BlockTable
NoBlock == 0
Docs == {BlockTable[b].doc : b \in Blocks}
RequestNames == {BlockTable[b].name : b \in Blocks} \ {""}
CacheKeys == Docs \X RequestNames

\* RequestState of the status bar entry
RequestState == {"None", "Pending", "Received", "Error", "Cancelled", "Closed"}

\* what a pre-request script does to the request object it is handed
ScriptEffects == {"none", "url"}
\* how a pre-request script ends: it returns, throws an Error, or throws a
\* value that carries no stack string (null, a string, ...)
ScriptEnds == {"returns", "throwsError", "throwsNonError"}
PreviewOptions == {"Full", "Exchange"}

VARIABLES
    requestStatusEntry,       \* RequestController._requestStatusEntry's state
    lastPendingRequest,       \* RequestController._lastPendingRequest
    lastRequestSettingTuple,  \* RequestController._lastRequestSettingTuple
    requestVariableCache,     \* RequestVariableCache: (document, name) -> response
    request,                  \* the HttpRequest objects
    run,                      \* the invocations of run()/rerun()
    nextRun,                  \* the next invocation's number
    lastStep,                 \* what the last step did that can be observed
    hover,                    \* the last result of provideHover
    resolver,                 \* the placeholder resolver at work on one field
    factory,                  \* RequestParserFactory.createRequestParser's call
    selector,                 \* the Selector's split of one document
    parallel,                 \* two resolve calls at work on one provider state
    webview,                  \* HttpResponseWebview and the panels of the host
    tree                      \* one call of HttpTreeProvider.getChildren

vars == <<requestStatusEntry, lastPendingRequest, lastRequestSettingTuple,
          requestVariableCache, request, run, nextRun, lastStep, hover,
          resolver, factory, selector, parallel, webview, tree>>

ctlVars == <<requestStatusEntry, lastPendingRequest, lastRequestSettingTuple,
             requestVariableCache, request, run, nextRun, lastStep>>

(***************************************************************************)
(* The request descriptor the parser builds for a block.                   *)
(***************************************************************************)
ParsedDescriptor(b) ==
    [method |-> "GET", url |-> "url", headers |-> "headers",
     body |-> BlockTable[b].body]

NoDescriptor == [method |-> "", url |-> "", headers |-> "", body |-> ""]

(***************************************************************************)
(* RequestVariableCache.get and the RequestVariableProvider's lookup of a  *)
(* reference: a missing entry is a warning, never an error.  `path` is the *)
(* part of the reference after the request name: "ok" names a part of the  *)
(* response that exists, "missing" one that does not, "invalid" is no      *)
(* response/request path at all.                                           *)
(***************************************************************************)
CacheGet(cache, doc, name) ==
    IF <<doc, name>> \in DOMAIN cache THEN cache[<<doc, name>>] ELSE NoResponse

ReferencePaths == {"ok", "missing", "invalid"}

RequestVariableGet(cache, doc, name, path) ==
    LET response == CacheGet(cache, doc, name) IN
    IF response = NoResponse
    THEN [name |-> name, value |-> NoResponse, warning |-> TRUE, error |-> FALSE]
    ELSE CASE path = "ok" ->
                [name |-> name, value |-> response, warning |-> FALSE, error |-> FALSE]
           [] path = "missing" ->
                [name |-> name, value |-> NoResponse, warning |-> TRUE, error |-> FALSE]
           [] OTHER ->
                [name |-> name, value |-> NoResponse, warning |-> FALSE, error |-> TRUE]

(***************************************************************************)
(* A pass that would read the cache anew for every reference after the      *)
(* first one (here: a cache that lost its entries meanwhile).  C5 must      *)
(* reject it.                                                               *)
(***************************************************************************)
ResolveReferencesUnpinned(b, snapshot) ==
    [i \in DOMAIN BlockTable[b].refs |->
        RequestVariableGet(IF i = 1 THEN snapshot ELSE [k \in CacheKeys |-> NoResponse],
                           BlockTable[b].doc, BlockTable[b].refs[i], "ok")]

(***************************************************************************)
(* One parse/resolution pass over a block: every request-variable          *)
(* reference of the block is resolved against the cache snapshot taken at  *)
(* the start of the pass.                                                  *)
(***************************************************************************)
ResolveReferences(b, snapshot) ==
    [i \in DOMAIN BlockTable[b].refs |->
        RequestVariableGet(snapshot, BlockTable[b].doc, BlockTable[b].refs[i], "ok")]

(***************************************************************************)
(* The state of one invocation.                                            *)
(*   pc: "idle" (not started), "confirming" (await showWarningMessage),    *)
(*       "parsed" (await parseHttpRequest), "script" (await                *)
(*       scriptRunner.execute), "sending" (await send), "history" (await   *)
(*       addToRequestHistory), "hung" (an await that never settles),       *)
(*       "done" (returned).                                                *)
(*   cancelledInSend: cancel() was called while the send was in flight.    *)
(*   cancelCalled: cancel() was called since runCore was entered and       *)
(*       before the send settled.                                          *)
(*   answer: the user's answer to the confirmation of a block with a note  *)
(*       ("": none asked for or none given yet).                           *)
(*   entered: the invocation's place in the order in which the            *)
(*       invocations in flight entered runCore (0: not in runCore).        *)
(*   passCache, resolved: the cache the parse pass started from and the    *)
(*       outcomes of its request-variable references.                      *)
(***************************************************************************)
IdleRun ==
    [pc |-> "idle", kind |-> "none", block |-> NoBlock, req |-> NoRequest,
     script |-> 0, cancelledInSend |-> FALSE, cancelCalled |-> FALSE,
     entered |-> 0, answer |-> "",
     passCache |-> [k \in CacheKeys |-> NoResponse], resolved |-> << >>]

\* an invocation that has returned
Returned == [IdleRun EXCEPT !.pc = "done"]

IdleRequest == [block |-> NoBlock, isCancelled |-> FALSE, content |-> NoDescriptor]

\* run() hands its document to runCore, rerun() hands none
HasDocument(r) == run[r].kind = "run"

InRunCore(r) == run[r].pc \in {"script", "sending", "history", "hung"}

\* the place of the next invocation that enters runCore
NextEntered ==
    LET places == {run[r].entered : r \in Runs} IN
    1 + CHOOSE m \in places : \A n \in places : n <= m

(***************************************************************************)
(* The placeholder resolver (VariableResolver and VariableProviders).      *)
(*                                                                         *)
(* A field is a sequence of tokens: literal text or a placeholder {{n}}.   *)
(* A provider's value is literal text or, for a file-scoped variable, a    *)
(* placeholder again.                                                      *)
(***************************************************************************)
\* number of tokens of a field
MaxFieldLen == 2
\* the fixed maximum recursion depth per top-level span
MaxDepth == 2

SystemNames == {"$guid", "$timestamp"}
ReferenceNames == {"A.response.body"}
PlainNames == {"a", "b", "c"}
VariableNames == SystemNames \cup ReferenceNames \cup PlainNames

Lit(t) == [kind |-> "lit", v |-> t]
Ph(n) == [kind |-> "ph", v |-> n]
Undefined == [kind |-> "none", v |-> ""]
NotFound == [kind |-> "notFound", v |-> ""]

Tokens == {Lit("text")} \cup {Ph(n) : n \in VariableNames}
Fields == UNION {[1..len -> Tokens] : len \in 1..MaxFieldLen}

\* the provider states the resolver is run against
FileScopes ==
    {[n \in VariableNames |->
         IF n \in PlainNames THEN plain[n]
         ELSE IF special THEN Lit("file") ELSE Undefined] :
       plain \in [PlainNames -> {Undefined, Lit("file")} \cup {Ph(m) : m \in PlainNames}],
       special \in BOOLEAN}
EnvironmentProfiles == {{}, VariableNames}
ProcessEnvironments == {{}, VariableNames}
Snapshots ==
    {[k \in CacheKeys |-> NoResponse],
     [k \in CacheKeys |-> IF k = <<"d1", "A">> THEN 1 ELSE NoResponse]}

\* file-scoped variables queried first; C8 must reject this order
ProviderOrderFileFirst == <<"file", "system", "request", "environment", "process">>

\* the values the injected random source yields, in the order it yields them
RandomSource == <<"g1", "g2", "g3", "g4", "g5", "g6", "g7", "g8">>
\* the instants the injected clock can be fixed at
Clocks == {"t1", "t2"}

\* the providers, in the order the resolver queries them
ProviderOrder == <<"system", "request", "file", "environment", "process">>

\* canResolve of provider p for name n
CanResolve(p, n, rs) ==
    CASE p = "system" -> n \in SystemNames
      [] p = "request" -> n \in ReferenceNames
      [] p = "file" -> rs.fileVars[n] # Undefined
      [] p = "environment" -> n \in rs.envVars
      [] OTHER -> n \in rs.procEnv

\* resolve of provider p for a name it recognizes
ProviderResolve(p, n, rs) ==
    CASE p = "system" ->
           IF n = "$guid" THEN Lit(RandomSource[rs.draws + 1]) ELSE Lit(rs.clock)
      [] p = "request" ->
           IF RequestVariableGet(rs.snapshot, "d1", "A", "ok").warning
           THEN NotFound
           ELSE Lit("response")
      [] p = "file" -> rs.fileVars[n]
      [] p = "environment" -> Lit("env")
      [] OTHER -> Lit("process")

\* the provider that answers for name n: the first one that recognizes it ("": none)
FirstProvider(n, rs) ==
    LET S == {i \in DOMAIN ProviderOrder : CanResolve(ProviderOrder[i], n, rs)} IN
    IF S = {} THEN "" ELSE ProviderOrder[CHOOSE i \in S : \A j \in S : i <= j]

\* the resolver before it is given a field
IdleResolver ==
    [fileVars |-> [n \in VariableNames |-> Undefined], envVars |-> {}, procEnv |-> {},
     snapshot |-> [k \in CacheKeys |-> NoResponse],
     field |-> << >>, pos |-> 1, chain |-> << >>, out |-> << >>,
     warnings |-> << >>, errors |-> << >>, outcomes |-> << >>,
     last |-> [name |-> "", provider |-> "", value |-> Undefined, chain |-> << >>,
               draws |-> 0],
     clock |-> "t1", draws |-> 0,
     pass |-> "first",
     first |-> [field |-> << >>, out |-> << >>, warnings |-> << >>, errors |-> << >>],
     phase |-> "idle"]

\* the provider state two resolve calls share
NoProviders ==
    [fileVars |-> [n \in VariableNames |-> Undefined], envVars |-> {}, procEnv |-> {},
     snapshot |-> [k \in CacheKeys |-> NoResponse]]

\* no resolve call is at work
IdleParallel ==
    [providers |-> NoProviders, initial |-> NoProviders,
     jobs |-> <<IdleResolver, IdleResolver>>]

(***************************************************************************)
(* RequestParserFactory: the text of a block is a sequence of characters,  *)
(* curlRegex is /^\s*curl/i.                                               *)
(***************************************************************************)
\* longest run of whitespace in front of a block's text
MaxLead == 2

WhitespaceChars == {" ", "\n"}

LeadingWhitespace == UNION {[1..len -> WhitespaceChars] : len \in 0..MaxLead}

RawRequests ==
    {lead \o head \o tail :
        lead \in LeadingWhitespace,
        head \in {<<"c", "u", "r", "l">>, <<"C", "U", "R", "L">>,
                  <<"c", "U", "r", "L">>, <<"c", "u", "r">>,
                  <<"x", "c", "u", "r", "l">>, <<"G", "E", "T">>, << >>},
        tail \in {<< >>, <<" ", "x">>, <<"y">>}}

\* a test that would compare the letters as they are written; C12 must reject it
ToLowerIdentity(c) == c

\* a regular expression with the i flag compares letters without their case
ToLower(c) ==
    CASE c = "C" -> "c"
      [] c = "U" -> "u"
      [] c = "R" -> "r"
      [] c = "L" -> "l"
      [] c = "G" -> "g"
      [] c = "E" -> "e"
      [] c = "T" -> "t"
      [] OTHER -> c

\* \s* from position i: the position of the first character that is no whitespace
RECURSIVE SkipWhitespace(_, _)
SkipWhitespace(text, i) ==
    IF i <= Len(text) /\ text[i] \in WhitespaceChars
    THEN SkipWhitespace(text, i + 1)
    ELSE i

\* curlRegex.test(rawHttpRequest)
CurlRegexTest(text) ==
    LET k == SkipWhitespace(text, 1) IN
    /\ k + 3 <= Len(text)
    /\ <<ToLower(text[k]), ToLower(text[k + 1]), ToLower(text[k + 2]),
         ToLower(text[k + 3])>> = <<"c", "u", "r", "l">>

CreateRequestParser(text) ==
    IF CurlRegexTest(text) THEN "CurlRequestParser" ELSE "HttpRequestParser"

\* createRequestParser has not been called
IdleFactory == [rawRequest |-> << >>, parser |-> ""]

(***************************************************************************)
(* The Selector's split.  A document is a sequence of lines, a line a      *)
(* sequence of characters.                                                 *)
(***************************************************************************)
\* number of lines of a document
MaxDocLines == 3

DocLines ==
    {<<"#", "#", "#">>, <<" ", "#", "#", "#">>, <<"#", "#", "#", " ", "n">>,
     <<"x">>, <<"x", "#", "#", "#">>, << >>, <<" ">>, <<"#", " ", "@">>}

Documents == UNION {[1..len -> DocLines] : len \in 0..MaxDocLines}

\* the line without the whitespace in front of it
RECURSIVE TrimLeft(_)
TrimLeft(line) ==
    IF line # << >> /\ Head(line) = " " THEN TrimLeft(Tail(line)) ELSE line

\* a splitter that would know a delimiter only in the first column; C16 must reject it
IsBoundaryUntrimmed(line) ==
    Len(line) >= 3 /\ line[1] = "#" /\ line[2] = "#" /\ line[3] = "#"

\* a block boundary: ### at the start of the line, leading whitespace ignored
IsBoundary(line) ==
    LET t == TrimLeft(line) IN
    Len(t) >= 3 /\ t[1] = "#" /\ t[2] = "#" /\ t[3] = "#"

IsBlank(line) == TrimLeft(line) = << >>

\* a comment line of the form @key[:value]
IsMetadata(line) ==
    LET t == TrimLeft(line) IN
    /\ t # << >>
    /\ t[1] = "#"
    /\ ~IsBoundary(line)
    /\ LET u == TrimLeft(Tail(t)) IN u # << >> /\ u[1] = "@"

(***************************************************************************)
(* The scan of the lines from line i on: `first` is the first line of the  *)
(* block being read, `body` tells whether it has a line of body so far.    *)
(* A block whose trimmed body is empty is dropped.                         *)
(***************************************************************************)
RECURSIVE SplitFrom(_, _, _, _, _)
SplitFrom(doc, i, first, body, blocks) ==
    LET closed == IF body
                  THEN Append(blocks, [first |-> first, last |-> i - 1])
                  ELSE blocks
    IN
    IF i > Len(doc) THEN closed
    ELSE IF IsBoundary(doc[i]) THEN SplitFrom(doc, i + 1, i + 1, FALSE, closed)
    ELSE SplitFrom(doc, i + 1, first,
                   body \/ (~IsBlank(doc[i]) /\ ~IsMetadata(doc[i])), blocks)

\* split(documentText)
Split(doc) == SplitFrom(doc, 1, 1, FALSE, << >>)

\* split has not been called
IdleSelector == [doc |-> << >>, blocks |-> << >>, phase |-> "idle"]

(***************************************************************************)
(* HttpResponseWebview.  A panel is identified by the order of its         *)
(* creation, a response by the invocation that received it.                *)
(*   panels, panelResponses, activePanel: the fields of the class;         *)
(*   title, html: the title and the HTML of each panel;                    *)
(*   previewActiveContext: the context key set by setPreviewActiveContext; *)
(*   active: the host's `active` property of each panel;                   *)
(*   created, disposed: the panels created and disposed so far;            *)
(*   showResponseInDifferentTab: the setting, stayedFalse: it has been     *)
(*       false all the time;                                               *)
(*   lastRendered: the response of the last render into each panel;        *)
(*   render: what the last step rendered (the response, the panel it went  *)
(*       to and the response that panel held before), if it rendered;      *)
(*   fired: the last step fired onDidCloseAllWebviewPanels.                *)
(***************************************************************************)
\* number of panels created in one behaviour
MaxPanels == 3

PanelIds == 1..MaxPanels
NoPanel == 0
Responses == Runs

NoRender == [response |-> NoResponse, panel |-> NoPanel, replaced |-> NoResponse]

IdleWebview ==
    [panels |-> << >>,
     panelResponses |-> [p \in PanelIds |-> NoResponse],
     title |-> [p \in PanelIds |-> NoResponse],
     html |-> [p \in PanelIds |-> NoResponse],
     activePanel |-> NoPanel,
     previewActiveContext |-> FALSE,
     active |-> [p \in PanelIds |-> FALSE],
     created |-> 0,
     disposed |-> {},
     showResponseInDifferentTab |-> FALSE,
     stayedFalse |-> TRUE,
     lastRendered |-> [p \in PanelIds |-> NoResponse],
     render |-> NoRender,
     fired |-> FALSE]

\* the panels of the panel list
PanelsOf(w) == {w.panels[i] : i \in DOMAIN w.panels}

\* HttpResponseWebview.activeResponse
ActiveResponse(w) ==
    IF w.activePanel # NoPanel THEN w.panelResponses[w.activePanel] ELSE NoResponse

\* a render that would open a panel for every response; C28 must reject it
CreatesPanelAlways(w) == TRUE

\* render's condition for creating a panel
CreatesPanel(w) == w.showResponseInDifferentTab \/ Len(w.panels) = 0

\* the panel a render goes to: a new one or the last of the list
RenderTarget(w) ==
    IF CreatesPanel(w) THEN w.created + 1 ELSE w.panels[Len(w.panels)]

(***************************************************************************)
(* HttpResponseWebview.render; `takeFocus` is the setting                  *)
(* previewResponsePanelTakeFocus.  The title and the HTML are made from    *)
(* the response.                                                           *)
(***************************************************************************)
RenderResponse(w, response, takeFocus) ==
    LET create == CreatesPanel(w)
        panel == RenderTarget(w)
    IN [w EXCEPT !.panels = IF create THEN Append(@, panel) ELSE @,
                 !.created = IF create THEN @ + 1 ELSE @,
                 !.title[panel] = response,
                 !.html[panel] = response,
                 !.previewActiveContext = takeFocus,
                 !.panelResponses[panel] = response,
                 !.activePanel = panel]

\* panels.splice(index, 1) at the index of panel p
RemovePanel(panels, p) ==
    LET Keep(x) == x # p IN SelectSeq(panels, Keep)

\* a handler that would fire whenever a panel is disposed; C26 must reject it
FiresOnEveryDispose(panels) == TRUE

\* the handler's condition for firing onDidCloseAllWebviewPanels
FiresCloseAll(panels) == Len(panels) = 0

\* a handler that would keep the response of the disposed panel; C25 must
\* reject it
OnDidDisposeKeepingResponse(w, p) ==
    LET w1 == IF p = w.activePanel
              THEN [w EXCEPT !.previewActiveContext = FALSE, !.activePanel = NoPanel]
              ELSE w
        w2 == IF p \in PanelsOf(w1)
              THEN [w1 EXCEPT !.panels = RemovePanel(@, p)]
              ELSE w1
    IN [w2 EXCEPT !.fired = FiresCloseAll(w2.panels)]

\* the handler render registers with panel.onDidDispose, for panel p
OnDidDispose(w, p) ==
    LET w1 == IF p = w.activePanel
              THEN [w EXCEPT !.previewActiveContext = FALSE, !.activePanel = NoPanel]
              ELSE w
        w2 == IF p \in PanelsOf(w1)
              THEN [w1 EXCEPT !.panels = RemovePanel(@, p),
                              !.panelResponses[p] = NoResponse]
              ELSE w1
    IN [w2 EXCEPT !.fired = FiresCloseAll(w2.panels)]

\* the handler render registers with panel.onDidChangeViewState, for panel p
OnDidChangeViewState(w, p) ==
    [w EXCEPT !.previewActiveContext = \E q \in PanelsOf(w) : w.active[q],
              !.activePanel = IF w.active[p] THEN p ELSE NoPanel]

(***************************************************************************)
(* One call of HttpTreeProvider.getChildren(element).                      *)
(*   element: "undefined", "folder" or "file" (the element's kind);        *)
(*   doc: the document of a file element;                                  *)
(*   folders: the number of workspace folders, folder: the one whose       *)
(*       files are being searched; activeEditor: an editor is open;        *)
(*   pc: "idle", "called", "stat", "openTextDocument", "getAllRequests",   *)
(*       "findFiles" (the host call awaited), "resolved" (the promise      *)
(*       getChildren returned is resolved), "hung" (nothing is left that   *)
(*       could settle it);                                                 *)
(*   children: what the promise resolved to; message: a message was shown. *)
(***************************************************************************)
\* number of workspace folders
MaxFolders == 2

ElementKinds == {"undefined", "folder", "file"}

IdleTree ==
    [element |-> "undefined", doc |-> << >>, folders |-> 0, folder |-> 0,
     activeEditor |-> FALSE, pc |-> "idle", children |-> << >>, message |-> FALSE]

\* provideHover has not been called
NoHover ==
    [inRange |-> FALSE, missing |-> FALSE, warning |-> FALSE, error |-> FALSE,
     result |-> "undefined"]

(***************************************************************************)
(* What a step did: the invocation that took it and what it produced       *)
(* ("Pending", "Received", "Error", "Cancelled": the status entry was set; *)
(* "send": HttpClient.send was called; "cache": a cache entry was written; *)
(* "tests", "render", "history": tests were run, the response was          *)
(* rendered, the history entry was persisted; "errorMessage",              *)
(* "previewErrorMessage", "scriptErrorMessage": an error message was       *)
(* shown; "SyntaxError": the parser threw).                                *)
(***************************************************************************)
Step(r, effects) == [run |-> r, effects |-> effects]

Init ==
    /\ requestStatusEntry = "None"
    /\ lastPendingRequest = NoRequest
    /\ lastRequestSettingTuple = NoRequest
    /\ requestVariableCache = [k \in CacheKeys |-> NoResponse]
    /\ request = [q \in Runs |-> IdleRequest]
    /\ run = [r \in Runs |-> IdleRun]
    /\ nextRun = 1
    /\ lastStep = Step(0, {})
    /\ hover = NoHover
    /\ resolver = IdleResolver
    /\ factory = IdleFactory
    /\ selector = IdleSelector
    /\ parallel = IdleParallel
    /\ webview = IdleWebview
    /\ tree = IdleTree

(***************************************************************************)
(* A parser that would hand back a request for a malformed block too.       *)
(* C11 must reject it.                                                      *)
(***************************************************************************)
ParseHttpRequestLenient(r, rec, b) ==
    /\ run' = [run EXCEPT ![r] =
                 [rec EXCEPT !.pc = "parsed", !.block = b, !.req = r,
                             !.passCache = requestVariableCache,
                             !.resolved = ResolveReferences(b, requestVariableCache)]]
    /\ lastStep' = Step(r, {})
    /\ request' = [request EXCEPT ![r] =
                     [block |-> b, isCancelled |-> FALSE,
                      content |-> ParsedDescriptor(b)]]

(***************************************************************************)
(* createRequestParser(...).parseHttpRequest(name) for invocation r of     *)
(* block b: the pass reads the cache as it is when the pass starts and     *)
(* builds the HttpRequest; a malformed block makes the parser throw, which *)
(* ends run().  `rec` is the invocation's record before the pass.          *)
(***************************************************************************)
ParseHttpRequest(r, rec, b) ==
    IF BlockTable[b].malformed
    THEN /\ run' = [run EXCEPT ![r] = Returned]
         /\ lastStep' = Step(r, {"SyntaxError"})
         /\ UNCHANGED request
    ELSE /\ run' = [run EXCEPT ![r] =
                      [rec EXCEPT !.pc = "parsed", !.block = b, !.req = r,
                                  !.passCache = requestVariableCache,
                                  !.resolved = ResolveReferences(b, requestVariableCache)]]
         /\ lastStep' = Step(r, {})
         /\ request' = [request EXCEPT ![r] =
                          [block |-> b, isCancelled |-> FALSE,
                           content |-> ParsedDescriptor(b)]]

(***************************************************************************)
(* RequestController.run, from the call to the await that follows the      *)
(* selection.  Up to the Selector's answer run() reads only the editor and *)
(* the document text, so the call and the answer are one step.             *)
(* `b` is the block the selection yields (NoBlock: no request selected);   *)
(* `editor` is FALSE when no document was passed and no editor is open.    *)
(***************************************************************************)
RunBegin(b, editor) ==
    LET r == nextRun
        rec == [IdleRun EXCEPT !.kind = "run"]
    IN
    /\ nextRun <= MaxRuns
    /\ nextRun' = nextRun + 1
    /\ IF ~editor \/ b = NoBlock
       THEN /\ run' = [run EXCEPT ![r] = Returned]
            /\ lastStep' = Step(r, {})
            /\ UNCHANGED request
       ELSE IF BlockTable[b].note
       THEN /\ run' = [run EXCEPT ![r] = [rec EXCEPT !.pc = "confirming", !.block = b]]
            /\ lastStep' = Step(r, {})
            /\ UNCHANGED request
       ELSE ParseHttpRequest(r, rec, b)
    /\ UNCHANGED <<requestStatusEntry, lastPendingRequest, lastRequestSettingTuple,
                   requestVariableCache, hover, resolver, factory, selector, parallel, webview, tree>>

\* showWarningMessage settles with the user's answer (undefined: dismissed)
ConfirmAnswers == {"Yes", "No", "undefined"}

\* a run() that would take a dismissed prompt for consent; C24 must reject it
ConfirmDoneUnlessNo(r, answer) ==
    /\ run[r].pc = "confirming"
    /\ IF answer = "No"
       THEN /\ run' = [run EXCEPT ![r] = [Returned EXCEPT !.answer = answer]]
            /\ lastStep' = Step(r, {})
            /\ UNCHANGED request
       ELSE ParseHttpRequest(r, [run[r] EXCEPT !.answer = answer], run[r].block)
    /\ UNCHANGED <<requestStatusEntry, lastPendingRequest, lastRequestSettingTuple,
                   requestVariableCache, nextRun, hover, resolver, factory, selector, parallel, webview, tree>>

ConfirmDone(r, answer) ==
    /\ run[r].pc = "confirming"
    /\ IF answer # "Yes"
       THEN /\ run' = [run EXCEPT ![r] = [Returned EXCEPT !.answer = answer]]
            /\ lastStep' = Step(r, {})
            /\ UNCHANGED request
       ELSE ParseHttpRequest(r, [run[r] EXCEPT !.answer = answer], run[r].block)
    /\ UNCHANGED <<requestStatusEntry, lastPendingRequest, lastRequestSettingTuple,
                   requestVariableCache, nextRun, hover, resolver, factory, selector, parallel, webview, tree>>

(***************************************************************************)
(* A controller that would store an entry for the request as soon as        *)
(* runCore is entered, before the send has returned.  C2 must reject it.    *)
(***************************************************************************)
RunCoreEnterCaching(r, rec, q) ==
    /\ requestStatusEntry' = "Pending"
    /\ lastPendingRequest' = q
    /\ lastRequestSettingTuple' = q
    /\ requestVariableCache' =
          [requestVariableCache EXCEPT
              ![<<BlockTable[request[q].block].doc, BlockTable[request[q].block].name>>] = r]
    /\ IF BlockTable[request[q].block].scripts > 0
       THEN /\ run' = [run EXCEPT ![r] = [rec EXCEPT !.pc = "script", !.script = 1,
                                                     !.entered = NextEntered,
                                                     !.passCache = IdleRun.passCache,
                                                     !.resolved = IdleRun.resolved]]
            /\ lastStep' = Step(r, {"Pending"})
       ELSE /\ run' = [run EXCEPT ![r] = [rec EXCEPT !.pc = "sending",
                                                     !.entered = NextEntered,
                                                     !.passCache = IdleRun.passCache,
                                                     !.resolved = IdleRun.resolved]]
            /\ lastStep' = Step(r, {"Pending", "send"})
    /\ UNCHANGED request

(***************************************************************************)
(* runCore up to its first await: the status entry, the pending request,   *)
(* the last request/settings tuple, then the first pre-request script or,  *)
(* without scripts, the call of HttpClient.send.  `rec` is the             *)
(* invocation's record when runCore is entered, `q` its request.           *)
(***************************************************************************)
RunCoreEnter(r, rec, q) ==
    LET entered == [rec EXCEPT !.entered = NextEntered,
                               !.passCache = IdleRun.passCache,
                               !.resolved = IdleRun.resolved]
    IN
    /\ requestStatusEntry' = "Pending"
    /\ lastPendingRequest' = q
    /\ lastRequestSettingTuple' = q
    /\ IF BlockTable[request[q].block].scripts > 0
       THEN /\ run' = [run EXCEPT ![r] = [entered EXCEPT !.pc = "script", !.script = 1]]
            /\ lastStep' = Step(r, {"Pending"})
       ELSE /\ run' = [run EXCEPT ![r] = [entered EXCEPT !.pc = "sending"]]
            /\ lastStep' = Step(r, {"Pending", "send"})
    /\ UNCHANGED <<requestVariableCache, request>>

\* run(): parseHttpRequest's promise settles and runCore is entered
RunCoreStart(r) ==
    /\ run[r].pc = "parsed"
    /\ RunCoreEnter(r, run[r], run[r].req)
    /\ UNCHANGED <<nextRun, hover, resolver, factory, selector, parallel, webview, tree>>

(***************************************************************************)
(* RequestController.rerun: runCore on the last request, with no document. *)
(***************************************************************************)
Rerun ==
    /\ nextRun <= MaxRuns
    /\ nextRun' = nextRun + 1
    /\ IF lastRequestSettingTuple = NoRequest
       THEN /\ run' = [run EXCEPT ![nextRun] = Returned]
            /\ lastStep' = Step(nextRun, {})
            /\ UNCHANGED <<requestStatusEntry, lastPendingRequest,
                           lastRequestSettingTuple, requestVariableCache, request>>
       ELSE RunCoreEnter(nextRun,
                         [IdleRun EXCEPT !.kind = "rerun",
                                         !.req = lastRequestSettingTuple,
                                         !.block = request[lastRequestSettingTuple].block],
                         lastRequestSettingTuple)
    /\ UNCHANGED <<hover, resolver, factory, selector, parallel, webview, tree>>

(***************************************************************************)
(* RequestController.cancel: HttpRequest.cancel() sets the cancellation    *)
(* flag of the pending request, if there is one.                           *)
(***************************************************************************)
HttpRequestCancel(req, q) ==
    [req EXCEPT ![q].isCancelled = TRUE]

Cancel ==
    /\ request' = IF lastPendingRequest # NoRequest
                  THEN HttpRequestCancel(request, lastPendingRequest)
                  ELSE request
    /\ requestStatusEntry' = "Cancelled"
    /\ run' = [r \in Runs |->
                 IF run[r].pc = "sending"
                 THEN [run[r] EXCEPT !.cancelledInSend = TRUE, !.cancelCalled = TRUE]
                 ELSE IF run[r].pc = "script"
                 THEN [run[r] EXCEPT !.cancelCalled = TRUE]
                 ELSE run[r]]
    /\ lastStep' = Step(0, {"Cancelled"})
    /\ UNCHANGED <<lastPendingRequest, lastRequestSettingTuple, requestVariableCache,
                   nextRun, hover, resolver, factory, selector, parallel, webview, tree>>

\* runCore's finally block
Finally(q) ==
    lastPendingRequest' =
        IF lastPendingRequest = q THEN NoRequest ELSE lastPendingRequest

(***************************************************************************)
(* runCore's catch block, which ends the invocation; `req` is the          *)
(* requests' state when the error is caught, `shown` what the step showed  *)
(* before the error reached the catch block.                               *)
(***************************************************************************)
Catch(r, req, shown) ==
    /\ run' = [run EXCEPT ![r] = Returned]
    /\ IF req[run[r].req].isCancelled
       THEN /\ lastStep' = Step(r, shown)
            /\ UNCHANGED requestStatusEntry
       ELSE /\ lastStep' = Step(r, shown \cup {"Error", "errorMessage"})
            /\ requestStatusEntry' = "Error"

(***************************************************************************)
(* ScriptRunner.execute settles.  The script was handed the request object *)
(* itself (rc.request) and may have changed it.  When the script throws,   *)
(* execute first calls showErrorMessage, which reads error.stack:  for a   *)
(* thrown value without a stack string that read throws inside the async   *)
(* promise executor, reject() is never reached and the promise awaited by  *)
(* runCore never settles.                                                  *)
(***************************************************************************)
ScriptMutation(content, effect) ==
    IF effect = "url" THEN [content EXCEPT !.url = "scripted"] ELSE content

ScriptDone(r, effect, end) ==
    LET q == run[r].req
        req1 == [request EXCEPT ![q].content = ScriptMutation(@, effect)]
    IN
    /\ run[r].pc = "script"
    /\ request' = req1
    /\ CASE end = "throwsNonError" ->
              /\ run' = [run EXCEPT ![r].pc = "hung", ![r].script = 0,
                                     ![r].cancelCalled = FALSE]
              /\ lastStep' = Step(r, {})
              /\ UNCHANGED <<requestStatusEntry, lastPendingRequest>>
         [] end = "throwsError" ->
              /\ Catch(r, req1, {"scriptErrorMessage"})
              /\ Finally(q)
         [] OTHER ->
              /\ IF run[r].script < BlockTable[request[q].block].scripts
                 THEN /\ run' = [run EXCEPT ![r].script = @ + 1]
                      /\ lastStep' = Step(r, {})
                 ELSE /\ run' = [run EXCEPT ![r].pc = "sending", ![r].script = 0]
                      /\ lastStep' = Step(r, {"send"})
              /\ UNCHANGED <<requestStatusEntry, lastPendingRequest>>
    /\ UNCHANGED <<lastRequestSettingTuple, requestVariableCache, nextRun, hover, resolver, factory, selector, parallel, webview, tree>>

(***************************************************************************)
(* HttpResponseWebview.highlightResponse, as to what it does to            *)
(* response.request: with the Exchange preview option a request body that  *)
(* is not a string is replaced by a note.                                  *)
(***************************************************************************)
HighlightResponse(content, previewOption) ==
    IF previewOption = "Exchange" /\ content.body = "file"
    THEN [content EXCEPT !.body = "note"]
    ELSE content

\* RequestVariableCache.add under runCore's guard
CacheAdd(cache, hasDoc, doc, name, response) ==
    IF name # "" /\ hasDoc
    THEN [cache EXCEPT ![<<doc, name>>] = response]
    ELSE cache

\* how the preview of a response goes
RenderModes == {"untitled", "webview", "previewError"}

(***************************************************************************)
(* HttpClient.send resolves with a response: runCore from the cancel check *)
(* to the await of addToRequestHistory.  The response of run r is          *)
(* identified by r.  `aliased` tells whether response.request is the       *)
(* request object that was sent or a copy of it.                           *)
(***************************************************************************)
SendResolve(r, mode, previewOption, aliased) ==
    LET q == run[r].req
        b == request[q].block
    IN
    /\ run[r].pc = "sending"
    /\ IF request[q].isCancelled
       THEN /\ run' = [run EXCEPT ![r] = Returned]
            /\ lastStep' = Step(r, {})
            /\ Finally(q)
            /\ UNCHANGED <<requestStatusEntry, requestVariableCache, request>>
       ELSE /\ requestStatusEntry' = "Received"
            /\ requestVariableCache' =
                  CacheAdd(requestVariableCache, HasDocument(r),
                           BlockTable[b].doc, BlockTable[b].name, r)
            /\ request' = IF mode = "webview" /\ aliased
                          THEN [request EXCEPT ![q].content =
                                   HighlightResponse(@, previewOption)]
                          ELSE request
            /\ run' = [run EXCEPT ![r].pc = "history", ![r].cancelledInSend = FALSE,
                                   ![r].cancelCalled = FALSE]
            /\ lastStep' =
                  Step(r, {"Received", "tests"}
                          \cup (IF BlockTable[b].name # "" /\ HasDocument(r)
                                THEN {"cache"} ELSE {})
                          \cup (IF mode = "previewError"
                                THEN {"previewErrorMessage"} ELSE {"render"}))
            /\ UNCHANGED lastPendingRequest
    /\ UNCHANGED <<lastRequestSettingTuple, nextRun, hover, resolver, factory, selector, parallel, webview, tree>>

\* HttpClient.send rejects
SendReject(r) ==
    /\ run[r].pc = "sending"
    /\ Catch(r, request, {})
    /\ Finally(run[r].req)
    /\ UNCHANGED <<lastRequestSettingTuple, requestVariableCache, request, nextRun,
                   hover, resolver, factory, selector, parallel, webview, tree>>

\* UserDataManager.addToRequestHistory settles
HistoryDone(r, persisted) ==
    /\ run[r].pc = "history"
    /\ IF persisted
       THEN /\ run' = [run EXCEPT ![r] = Returned]
            /\ lastStep' = Step(r, {"history"})
            /\ UNCHANGED requestStatusEntry
       ELSE Catch(r, request, {})
    /\ Finally(run[r].req)
    /\ UNCHANGED <<lastRequestSettingTuple, requestVariableCache, request, nextRun,
                   hover, resolver, factory, selector, parallel, webview, tree>>

(***************************************************************************)
(* A hover provider that would look at the error only.  C6 must reject it.  *)
(***************************************************************************)
ProvideHoverIgnoringWarning(cache, doc, inRange, name, path) ==
    IF ~inRange
    THEN NoHover
    ELSE LET v == RequestVariableGet(cache, doc, name, path) IN
         [inRange |-> TRUE,
          missing |-> CacheGet(cache, doc, name) = NoResponse,
          warning |-> v.warning, error |-> v.error,
          result |-> IF ~v.error THEN "hover" ELSE "undefined"]

(***************************************************************************)
(* RequestVariableHoverProvider.provideHover.  `inRange` tells whether the *)
(* position is on a request-variable reference, `name` and `path` are the  *)
(* reference's request name and path.                                      *)
(***************************************************************************)
ProvideHover(cache, doc, inRange, name, path) ==
    IF ~inRange
    THEN NoHover
    ELSE LET v == RequestVariableGet(cache, doc, name, path) IN
         [inRange |-> TRUE,
          missing |-> CacheGet(cache, doc, name) = NoResponse,
          warning |-> v.warning, error |-> v.error,
          result |-> IF ~v.error /\ ~v.warning THEN "hover" ELSE "undefined"]

\* a hover provider that would drop the entry it has shown; C14 must reject it
HoverEvicting(doc, inRange, name, path) ==
    /\ hover' = ProvideHover(requestVariableCache, doc, inRange, name, path)
    /\ requestVariableCache' = [requestVariableCache EXCEPT ![<<doc, name>>] = NoResponse]
    /\ UNCHANGED <<requestStatusEntry, lastPendingRequest, lastRequestSettingTuple,
                   request, run, nextRun, lastStep, resolver, factory, selector,
                   parallel, webview, tree>>

Hover(doc, inRange, name, path) ==
    /\ hover' = ProvideHover(requestVariableCache, doc, inRange, name, path)
    /\ UNCHANGED <<ctlVars, resolver, factory, selector, parallel, webview, tree>>

Next ==
    \/ \E b \in Blocks \cup {NoBlock}, editor \in BOOLEAN : RunBegin(b, editor)
    \/ \E r \in Runs, answer \in ConfirmAnswers : ConfirmDone(r, answer)
    \/ \E r \in Runs : RunCoreStart(r)
    \/ Rerun
    \/ Cancel
    \/ \E r \in Runs, effect \in ScriptEffects, end \in ScriptEnds :
          ScriptDone(r, effect, end)
    \/ \E r \in Runs, mode \in RenderModes, previewOption \in PreviewOptions,
          aliased \in BOOLEAN : SendResolve(r, mode, previewOption, aliased)
    \/ \E r \in Runs : SendReject(r)
    \/ \E r \in Runs, persisted \in BOOLEAN : HistoryDone(r, persisted)

Spec == Init /\ [][Next]_vars

(***************************************************************************)
(* The controller when every promise it awaits in runCore settles: the     *)
(* parse, each pre-request script (it returns or throws, whatever it       *)
(* throws), the transport call and the write of the history.               *)
(***************************************************************************)
SpecFair ==
    /\ Spec
    /\ \A r \in Runs :
          /\ WF_vars(RunCoreStart(r))
          /\ WF_vars(\E effect \in ScriptEffects, end \in ScriptEnds :
                        ScriptDone(r, effect, end))
          /\ WF_vars((\E mode \in RenderModes, previewOption \in PreviewOptions,
                         aliased \in BOOLEAN : SendResolve(r, mode, previewOption, aliased))
                     \/ SendReject(r))
          /\ WF_vars(\E persisted \in BOOLEAN : HistoryDone(r, persisted))

\* the controller together with the hover provider
NextHover ==
    \/ Next
    \/ \E doc \in Docs, inRange \in BOOLEAN, name \in RequestNames,
          path \in ReferencePaths : Hover(doc, inRange, name, path)

SpecHover == Init /\ [][NextHover]_vars

(***************************************************************************)
(* resolve(descriptor, providers, cacheSnapshot), one field at a time and  *)
(* one provider lookup per step.                                           *)
(***************************************************************************)
InitResolve ==
    /\ requestStatusEntry = "None"
    /\ lastPendingRequest = NoRequest
    /\ lastRequestSettingTuple = NoRequest
    /\ requestVariableCache = [k \in CacheKeys |-> NoResponse]
    /\ request = [q \in Runs |-> IdleRequest]
    /\ run = [r \in Runs |-> IdleRun]
    /\ nextRun = 1
    /\ lastStep = Step(0, {})
    /\ hover = NoHover
    /\ factory = IdleFactory
    /\ selector = IdleSelector
    /\ parallel = IdleParallel
    /\ webview = IdleWebview
    /\ tree = IdleTree
    /\ \E fv \in FileScopes, ev \in EnvironmentProfiles, pe \in ProcessEnvironments,
          sn \in Snapshots, f \in Fields :
          resolver = [IdleResolver EXCEPT !.fileVars = fv, !.envVars = ev,
                                          !.procEnv = pe, !.snapshot = sn,
                                          !.field = f, !.phase = "scan"]

\* a resolver that would keep what a span came to as a file variable of the
\* span's name; C17 must reject it
EndSpanMemoizing(rs, t, o) ==
    [rs EXCEPT !.out = Append(@, t), !.outcomes = Append(@, o), !.pos = @ + 1,
               !.chain = << >>, !.phase = "scan",
               !.fileVars = [@ EXCEPT ![rs.field[rs.pos].v] = t]]

\* the span at `pos` ends with token `t` in the output and outcome `o`
EndSpan(rs, t, o) ==
    [rs EXCEPT !.out = Append(@, t), !.outcomes = Append(@, o), !.pos = @ + 1,
               !.chain = << >>, !.phase = "scan"]

\* a resolver that would give up the field at an unresolved name; C9 must reject it
UnresolvedAborts(rs, n) ==
    [rs EXCEPT !.warnings = Append(@, [pos |-> rs.pos, name |-> n]),
               !.chain = << >>, !.phase = "done"]

\* a name without a value: UnresolvedVariableWarning, the placeholder stays
Unresolved(rs, n) ==
    EndSpan([rs EXCEPT !.warnings = Append(@, [pos |-> rs.pos, name |-> n])],
            Ph(n), "warning")

\* a resolver that would encode literal text once more; C15 must reject it
CopyLiteralEncoding(rs) ==
    [rs EXCEPT !.out = Append(@, Lit("encoded")),
               !.outcomes = Append(@, "literal"),
               !.pos = @ + 1]

\* literal text is copied
CopyLiteralStep(rs) ==
    [rs EXCEPT !.out = Append(@, rs.field[rs.pos]),
               !.outcomes = Append(@, "literal"),
               !.pos = @ + 1]

CopyLiteral ==
    /\ resolver.phase = "scan"
    /\ resolver.pos <= Len(resolver.field)
    /\ resolver.field[resolver.pos].kind = "lit"
    /\ resolver' = CopyLiteralStep(resolver)
    /\ UNCHANGED <<ctlVars, hover, factory, selector, parallel, webview, tree>>

\* a top-level span starts a resolution chain
BeginSpanStep(rs) ==
    [rs EXCEPT !.chain = <<rs.field[rs.pos].v>>, !.phase = "lookup"]

BeginSpan ==
    /\ resolver.phase = "scan"
    /\ resolver.pos <= Len(resolver.field)
    /\ resolver.field[resolver.pos].kind = "ph"
    /\ resolver' = BeginSpanStep(resolver)
    /\ UNCHANGED <<ctlVars, hover, factory, selector, parallel, webview, tree>>

\* a random source that would yield its last value again; C19 must reject it
NextDrawStuck(draws) == draws

\* the random source after a value was drawn from it
NextDraw(draws) == draws + 1

\* a resolver without the check for revisited names; C7 must reject it
RevisitedNever(chain, m) == FALSE

\* has name m been visited in the chain?
Revisited(chain, m) == \E i \in DOMAIN chain : chain[i] = m

(***************************************************************************)
(* The lookup of the chain's last name.  No provider recognizes it, or the *)
(* request-variable provider finds no cached response: the placeholder is  *)
(* left as it is and a warning names it.  A literal value ends the span.   *)
(* A value that is a placeholder again is resolved again, unless its name  *)
(* was visited before (CircularVariableReference, the span is aborted) or  *)
(* the maximum depth is reached (the value is left as it is).              *)
(***************************************************************************)
LookupStep(rs0) ==
    LET n == rs0.chain[Len(rs0.chain)]
        p == FirstProvider(n, rs0)
        v == IF p = "" THEN Undefined ELSE ProviderResolve(p, n, rs0)
        rs == [rs0 EXCEPT !.last = [name |-> n, provider |-> p, value |-> v,
                                    chain |-> rs0.chain, draws |-> rs0.draws],
                          !.draws = IF p = "system" /\ n = "$guid"
                                    THEN NextDraw(@) ELSE @]
    IN
    CASE v.kind \in {"none", "notFound"} ->
           Unresolved(rs, n)
      [] v.kind = "lit" -> EndSpan(rs, v, "value")
      [] v.kind = "ph" /\ Revisited(rs0.chain, v.v) ->
           EndSpan([rs EXCEPT !.errors =
                       Append(@, [pos |-> rs0.pos,
                                  kind |-> "CircularVariableReference",
                                  chain |-> Append(rs0.chain, v.v)])],
                   rs0.field[rs0.pos], "error")
      [] v.kind = "ph" /\ Len(rs0.chain) >= MaxDepth ->
           EndSpan(rs, v, "value")
      [] OTHER -> [rs EXCEPT !.chain = Append(@, v.v)]

Lookup ==
    /\ resolver.phase = "lookup"
    /\ resolver' = LookupStep(resolver)
    /\ UNCHANGED <<ctlVars, hover, factory, selector, parallel, webview, tree>>

\* the end of the field
FinishFieldStep(rs) == [rs EXCEPT !.phase = "done"]

FinishField ==
    /\ resolver.phase = "scan"
    /\ resolver.pos > Len(resolver.field)
    /\ resolver' = FinishFieldStep(resolver)
    /\ UNCHANGED <<ctlVars, hover, factory, selector, parallel, webview, tree>>

NextResolve ==
    \/ CopyLiteral
    \/ BeginSpan
    \/ Lookup
    \/ FinishField

SpecResolve == InitResolve /\ [][NextResolve]_vars

\* the resolver is a loop that runs to its end once it is called
SpecResolveFair == SpecResolve /\ WF_vars(NextResolve)

(***************************************************************************)
(* resolve called a second time: on its own output (the same provider      *)
(* state), or on the same field with the same provider state, cache        *)
(* snapshot, clock and random source.                                      *)
(***************************************************************************)
\* the file scopes the second call is tried with
TwiceScopes == {fv \in FileScopes : fv["$guid"] = Undefined /\ fv["c"] = Undefined}

InitResolveTwice ==
    /\ requestStatusEntry = "None"
    /\ lastPendingRequest = NoRequest
    /\ lastRequestSettingTuple = NoRequest
    /\ requestVariableCache = [k \in CacheKeys |-> NoResponse]
    /\ request = [q \in Runs |-> IdleRequest]
    /\ run = [r \in Runs |-> IdleRun]
    /\ nextRun = 1
    /\ lastStep = Step(0, {})
    /\ hover = NoHover
    /\ factory = IdleFactory
    /\ selector = IdleSelector
    /\ parallel = IdleParallel
    /\ webview = IdleWebview
    /\ tree = IdleTree
    /\ \E fv \in TwiceScopes, ev \in EnvironmentProfiles, pe \in ProcessEnvironments,
          sn \in Snapshots, f \in Fields, t \in Clocks :
          resolver = [IdleResolver EXCEPT !.fileVars = fv, !.envVars = ev,
                                          !.procEnv = pe, !.snapshot = sn,
                                          !.field = f, !.clock = t, !.phase = "scan"]

\* the resolver called on field f after a first call, whose result is kept
SecondCall(rs, f, pass, draws) ==
    [rs EXCEPT !.field = f, !.pos = 1, !.chain = << >>, !.out = << >>,
               !.warnings = << >>, !.errors = << >>, !.outcomes = << >>,
               !.draws = draws, !.pass = pass, !.phase = "scan",
               !.first = [field |-> rs.field, out |-> rs.out,
                          warnings |-> rs.warnings, errors |-> rs.errors]]

\* resolve(resolve(field)): the output of the first call is resolved
ResolveAgain ==
    /\ resolver.phase = "done"
    /\ resolver.pass = "first"
    /\ resolver' = SecondCall(resolver, resolver.out, "again", resolver.draws)
    /\ UNCHANGED <<ctlVars, hover, factory, selector, parallel, webview, tree>>

\* resolve(field) once more, the random source rewound to where the first call began
ResolveSame ==
    /\ resolver.phase = "done"
    /\ resolver.pass = "first"
    /\ resolver' = SecondCall(resolver, resolver.field, "same", 0)
    /\ UNCHANGED <<ctlVars, hover, factory, selector, parallel, webview, tree>>

NextResolveTwice ==
    \/ NextResolve
    \/ ResolveAgain
    \/ ResolveSame

SpecResolveTwice == InitResolveTwice /\ [][NextResolveTwice]_vars

(***************************************************************************)
(* The blocks of one document resolved in parallel: two resolve calls take *)
(* their steps in any order; every step reads the provider state the calls *)
(* share and leaves behind the provider state it ends with.                *)
(***************************************************************************)
\* the resolver's next step, whichever it is
ResolverStep(rs) ==
    CASE rs.phase = "lookup" -> LookupStep(rs)
      [] rs.phase = "scan" /\ rs.pos > Len(rs.field) -> FinishFieldStep(rs)
      [] rs.phase = "scan" /\ rs.field[rs.pos].kind = "lit" -> CopyLiteralStep(rs)
      [] OTHER -> BeginSpanStep(rs)

\* resolve run from rs to its end without another call beside it
RECURSIVE RunAlone(_)
RunAlone(rs) == IF rs.phase = "done" THEN rs ELSE RunAlone(ResolverStep(rs))

ProvidersOf(rs) ==
    [fileVars |-> rs.fileVars, envVars |-> rs.envVars, procEnv |-> rs.procEnv,
     snapshot |-> rs.snapshot]

WithProviders(rs, ps) ==
    [rs EXCEPT !.fileVars = ps.fileVars, !.envVars = ps.envVars,
               !.procEnv = ps.procEnv, !.snapshot = ps.snapshot]

\* the call of resolve on field f
StartResolve(ps, f) ==
    WithProviders([IdleResolver EXCEPT !.field = f, !.phase = "scan"], ps)

InitParallel ==
    /\ requestStatusEntry = "None"
    /\ lastPendingRequest = NoRequest
    /\ lastRequestSettingTuple = NoRequest
    /\ requestVariableCache = [k \in CacheKeys |-> NoResponse]
    /\ request = [q \in Runs |-> IdleRequest]
    /\ webview = IdleWebview
    /\ tree = IdleTree
    /\ run = [r \in Runs |-> IdleRun]
    /\ nextRun = 1
    /\ lastStep = Step(0, {})
    /\ hover = NoHover
    /\ resolver = IdleResolver
    /\ factory = IdleFactory
    /\ selector = IdleSelector
    /\ \E fv \in TwiceScopes, ev \in EnvironmentProfiles, f1 \in Fields,
          f2 \in [1..1 -> Tokens] :
          LET ps == [NoProviders EXCEPT !.fileVars = fv, !.envVars = ev] IN
          parallel = [providers |-> ps, initial |-> ps,
                      jobs |-> <<StartResolve(ps, f1), StartResolve(ps, f2)>>]

\* one step of call i
ParallelStep(i) ==
    LET next == ResolverStep(WithProviders(parallel.jobs[i], parallel.providers)) IN
    /\ parallel.jobs[i].phase \in {"scan", "lookup"}
    /\ parallel' = [parallel EXCEPT !.jobs[i] = next, !.providers = ProvidersOf(next)]
    /\ UNCHANGED <<ctlVars, hover, resolver, factory, selector, webview, tree>>

NextParallel == \E i \in {1, 2} : ParallelStep(i)

SpecParallel == InitParallel /\ [][NextParallel]_vars

(***************************************************************************)
(* RequestParserFactory.createRequestParser on the text of one block.      *)
(***************************************************************************)
InitFactory ==
    /\ requestStatusEntry = "None"
    /\ lastPendingRequest = NoRequest
    /\ lastRequestSettingTuple = NoRequest
    /\ requestVariableCache = [k \in CacheKeys |-> NoResponse]
    /\ request = [q \in Runs |-> IdleRequest]
    /\ run = [r \in Runs |-> IdleRun]
    /\ nextRun = 1
    /\ lastStep = Step(0, {})
    /\ hover = NoHover
    /\ resolver = IdleResolver
    /\ selector = IdleSelector
    /\ parallel = IdleParallel
    /\ webview = IdleWebview
    /\ tree = IdleTree
    /\ \E text \in RawRequests : factory = [rawRequest |-> text, parser |-> ""]

CreateParser ==
    /\ factory.parser = ""
    /\ factory' = [factory EXCEPT !.parser = CreateRequestParser(factory.rawRequest)]
    /\ UNCHANGED <<ctlVars, hover, resolver, selector, parallel, webview, tree>>

NextFactory == CreateParser

SpecFactory == InitFactory /\ [][NextFactory]_vars

(***************************************************************************)
(* The Selector's split of one document.                                   *)
(***************************************************************************)
InitSelector ==
    /\ requestStatusEntry = "None"
    /\ lastPendingRequest = NoRequest
    /\ lastRequestSettingTuple = NoRequest
    /\ requestVariableCache = [k \in CacheKeys |-> NoResponse]
    /\ request = [q \in Runs |-> IdleRequest]
    /\ run = [r \in Runs |-> IdleRun]
    /\ nextRun = 1
    /\ lastStep = Step(0, {})
    /\ hover = NoHover
    /\ resolver = IdleResolver
    /\ factory = IdleFactory
    /\ parallel = IdleParallel
    /\ webview = IdleWebview
    /\ tree = IdleTree
    /\ \E doc \in Documents : selector = [IdleSelector EXCEPT !.doc = doc, !.phase = "called"]

SplitDocument ==
    /\ selector.phase = "called"
    /\ selector' = [selector EXCEPT !.blocks = Split(selector.doc), !.phase = "done"]
    /\ UNCHANGED <<ctlVars, hover, resolver, factory, parallel, webview, tree>>

NextSelector == SplitDocument

SpecSelector == InitSelector /\ [][NextSelector]_vars

(***************************************************************************)
(* The response webview with its host: render calls, the user closing      *)
(* panels and moving the focus, the setting being changed, and the         *)
(* controller's updates of the status entry.                               *)
(***************************************************************************)
InitWebview ==
    /\ requestStatusEntry = "None"
    /\ lastPendingRequest = NoRequest
    /\ lastRequestSettingTuple = NoRequest
    /\ requestVariableCache = [k \in CacheKeys |-> NoResponse]
    /\ request = [q \in Runs |-> IdleRequest]
    /\ run = [r \in Runs |-> IdleRun]
    /\ nextRun = 1
    /\ lastStep = Step(0, {})
    /\ hover = NoHover
    /\ resolver = IdleResolver
    /\ factory = IdleFactory
    /\ selector = IdleSelector
    /\ parallel = IdleParallel
    /\ tree = IdleTree
    /\ \E setting \in BOOLEAN :
          webview = [IdleWebview EXCEPT !.showResponseInDifferentTab = setting,
                                        !.stayedFalse = ~setting]

webviewFrame == <<lastPendingRequest, lastRequestSettingTuple, requestVariableCache,
                  request, run, nextRun, lastStep, hover, resolver, factory,
                  selector, parallel, tree>>

\* runCore calls render with the response it received
Render(response, takeFocus) ==
    /\ CreatesPanel(webview) => webview.created < MaxPanels
    /\ webview' =
          [RenderResponse(webview, response, takeFocus) EXCEPT
              !.lastRendered[RenderTarget(webview)] = response,
              !.render = [response |-> response, panel |-> RenderTarget(webview),
                          replaced |-> webview.panelResponses[RenderTarget(webview)]],
              !.fired = FALSE]
    /\ UNCHANGED <<requestStatusEntry, webviewFrame>>

\* the host disposes panel p (the user closes it); the controller's listener
\* sets the status entry when onDidCloseAllWebviewPanels fires
DisposePanel(p) ==
    /\ p \in PanelsOf(webview)
    /\ LET w == [OnDidDispose(webview, p) EXCEPT !.disposed = @ \cup {p},
                                                 !.active[p] = FALSE,
                                                 !.render = NoRender]
       IN /\ webview' = w
          /\ requestStatusEntry' = IF w.fired THEN "Closed" ELSE requestStatusEntry
    /\ UNCHANGED webviewFrame

\* the host changes the `active` property of panel p and tells the webview
ChangeViewState(p, active) ==
    /\ p \in PanelsOf(webview)
    /\ LET hosted == [webview EXCEPT
                         !.active = IF active THEN [q \in PanelIds |-> q = p]
                                    ELSE [@ EXCEPT ![p] = FALSE]]
       IN webview' = [OnDidChangeViewState(hosted, p) EXCEPT !.render = NoRender,
                                                             !.fired = FALSE]
    /\ UNCHANGED <<requestStatusEntry, webviewFrame>>

\* the user changes the setting showResponseInDifferentTab
ChangeSetting(setting) ==
    /\ setting # webview.showResponseInDifferentTab
    /\ webview' = [webview EXCEPT !.showResponseInDifferentTab = setting,
                                  !.stayedFalse = @ /\ ~setting,
                                  !.render = NoRender,
                                  !.fired = FALSE]
    /\ UNCHANGED <<requestStatusEntry, webviewFrame>>

\* runCore and cancel() update the status entry
StatusUpdate(state) ==
    /\ state # requestStatusEntry
    /\ requestStatusEntry' = state
    /\ webview' = [webview EXCEPT !.render = NoRender, !.fired = FALSE]
    /\ UNCHANGED webviewFrame

NextWebview ==
    \/ \E response \in Responses, takeFocus \in BOOLEAN : Render(response, takeFocus)
    \/ \E p \in PanelIds : DisposePanel(p)
    \/ \E p \in PanelIds, active \in BOOLEAN : ChangeViewState(p, active)
    \/ \E setting \in BOOLEAN : ChangeSetting(setting)
    \/ \E state \in {"Pending", "Received", "Error", "Cancelled"} : StatusUpdate(state)

SpecWebview == InitWebview /\ [][NextWebview]_vars

(***************************************************************************)
(* HttpTreeProvider.getChildren and getHttpClientItems, one host call per  *)
(* step.  getChildren resolves its promise with what getHttpClientItems    *)
(* resolves to; it has no handler for a rejection.                         *)
(***************************************************************************)
InitTree ==
    /\ requestStatusEntry = "None"
    /\ lastPendingRequest = NoRequest
    /\ lastRequestSettingTuple = NoRequest
    /\ requestVariableCache = [k \in CacheKeys |-> NoResponse]
    /\ request = [q \in Runs |-> IdleRequest]
    /\ run = [r \in Runs |-> IdleRun]
    /\ nextRun = 1
    /\ lastStep = Step(0, {})
    /\ hover = NoHover
    /\ resolver = IdleResolver
    /\ factory = IdleFactory
    /\ selector = IdleSelector
    /\ parallel = IdleParallel
    /\ webview = IdleWebview
    /\ \E element \in ElementKinds, doc \in Documents, folders \in 0..MaxFolders,
          activeEditor \in BOOLEAN :
          /\ element # "file" => doc = << >>
          /\ element # "undefined" => folders = 0 /\ ~activeEditor
          /\ tree = [IdleTree EXCEPT !.element = element, !.doc = doc,
                                     !.folders = folders,
                                     !.activeEditor = activeEditor, !.pc = "called"]

treeFrame == <<ctlVars, hover, resolver, factory, selector, parallel, webview>>

\* the promise getChildren returned is resolved with `children`
Resolved(t, children) == [t EXCEPT !.pc = "resolved", !.children = children]

\* getChildren is called: getHttpClientItems up to its first await
GetChildren ==
    /\ tree.pc = "called"
    /\ tree' =
          CASE tree.element = "folder" -> Resolved(tree, <<"children">>)
            [] tree.element = "file" -> [tree EXCEPT !.pc = "stat"]
            [] OTHER ->
                 IF tree.folders = 0
                 THEN IF tree.activeEditor
                      THEN Resolved(tree, <<"activeFile">>)
                      ELSE Resolved(tree, << >>)
                 ELSE [tree EXCEPT !.pc = "findFiles", !.folder = 1]
    /\ UNCHANGED treeFrame

\* workspace.fs.stat settles
StatSettles(exists) ==
    /\ tree.pc = "stat"
    /\ tree' = IF exists
               THEN [tree EXCEPT !.pc = "openTextDocument"]
               ELSE [Resolved(tree, << >>) EXCEPT !.message = TRUE]
    /\ UNCHANGED treeFrame

\* workspace.openTextDocument settles; `then` is given no handler for a
\* rejection, and the promise around it is resolved by the handler only
OpenTextDocumentSettles(opened) ==
    /\ tree.pc = "openTextDocument"
    /\ tree' = IF opened
               THEN [tree EXCEPT !.pc = "getAllRequests"]
               ELSE [tree EXCEPT !.pc = "hung"]
    /\ UNCHANGED treeFrame

\* how Selector.getAllRequests settles
GetAllRequestsOutcomes == {"ranges", "falsy", "rejects"}

\* Selector.getAllRequests settles: the handler resolves the promise when
\* it is given ranges, and does nothing else
GetAllRequestsSettles(outcome) ==
    /\ tree.pc = "getAllRequests"
    /\ tree' = IF outcome = "ranges"
               THEN Resolved(tree, Split(tree.doc))
               ELSE [tree EXCEPT !.pc = "hung"]
    /\ UNCHANGED treeFrame

\* workspace.findFiles settles for one workspace folder in getTreeData; a
\* rejection makes the await in getChildren's executor throw
FindFilesSettles(found) ==
    /\ tree.pc = "findFiles"
    /\ tree' = IF ~found
               THEN [tree EXCEPT !.pc = "hung"]
               ELSE IF tree.folder < tree.folders
               THEN [tree EXCEPT !.folder = @ + 1]
               ELSE Resolved(tree, <<"treeData">>)
    /\ UNCHANGED treeFrame

NextTree ==
    \/ GetChildren
    \/ \E exists \in BOOLEAN : StatSettles(exists)
    \/ \E opened \in BOOLEAN : OpenTextDocumentSettles(opened)
    \/ \E outcome \in GetAllRequestsOutcomes : GetAllRequestsSettles(outcome)
    \/ \E found \in BOOLEAN : FindFilesSettles(found)

SpecTree == InitTree /\ [][NextTree]_vars

\* the host calls settle
SpecTreeFair ==
    /\ SpecTree
    /\ WF_vars(GetChildren)
    /\ WF_vars(\E exists \in BOOLEAN : StatSettles(exists))
    /\ WF_vars(\E opened \in BOOLEAN : OpenTextDocumentSettles(opened))
    /\ WF_vars(\E outcome \in GetAllRequestsOutcomes : GetAllRequestsSettles(outcome))
    /\ WF_vars(\E found \in BOOLEAN : FindFilesSettles(found))

(***************************************************************************)
(* The properties.                                                         *)
(***************************************************************************)
\* the cache key of invocation r's request
KeyOf(r) == <<BlockTable[run[r].block].doc, BlockTable[run[r].block].name>>

\* invocation r's send settles in this step
SendSettles(r) == run[r].pc = "sending" /\ run'[r].pc # "sending"

\* invocation r's send returns a response that is taken as received in this step
ResponseReceived(r) == run[r].pc = "sending" /\ run'[r].pc = "history"

(***************************************************************************)
(* C1: when cancel() was called while the send of an invocation was in     *)
(* flight, the request of that invocation carries the cancellation flag,   *)
(* and the step in which the send settles produces nothing: the status     *)
(* entry and the cache stay as they are, no tests, no rendering, no        *)
(* history entry, no error message.                                        *)
(***************************************************************************)
C1_CancelInFlightSilencesRun ==
    [][\A r \in Runs :
          (run[r].pc = "sending" /\ run[r].cancelledInSend) =>
             /\ request[run[r].req].isCancelled
             /\ SendSettles(r) =>
                  /\ lastStep'.effects = {}
                  /\ requestStatusEntry' = requestStatusEntry
                  /\ requestVariableCache' = requestVariableCache]_vars

\* C1 in the case the code handles: the only invocation in flight is cancelled
C1_CancelledSingleRun ==
    /\ \E r \in Runs : run[r].pc = "sending" /\ run[r].cancelledInSend
                       /\ request[run[r].req].isCancelled
    /\ nextRun = 2

(***************************************************************************)
(* C2: the cache changes only in the step in which the send of an          *)
(* invocation returns its response and the response is received; that step *)
(* writes the one entry of the invocation's request with that response.    *)
(* No step of an invocation between Pending and the return of its send     *)
(* changes the cache, and no state shows a partial write.                  *)
(***************************************************************************)
C2_CacheWrittenOnlyAfterSend ==
    [][requestVariableCache' # requestVariableCache =>
          \E r \in Runs :
             /\ ResponseReceived(r)
             /\ lastStep'.run = r
             /\ {"Received", "cache"} \subseteq lastStep'.effects
             /\ requestVariableCache' =
                   [requestVariableCache EXCEPT ![KeyOf(r)] = r]]_vars

\* a response was just stored while another invocation is between Pending and its send's return
C2_ResponseStored ==
    \E r \in Runs, r2 \in Runs :
       /\ run[r].pc = "history"
       /\ lastStep = Step(r, {"Received", "tests", "cache", "render"})
       /\ requestVariableCache[KeyOf(r)] = r
       /\ run[r2].pc \in {"script", "sending"}

(***************************************************************************)
(* C3: whenever a named request is executed and its response is received   *)
(* without cancellation, through run() or through rerun(), the entry of    *)
(* (document, name) afterwards holds that response.                        *)
(***************************************************************************)
C3_EntryOverwrittenOnEachRun ==
    [][\A r \in Runs :
          (ResponseReceived(r) /\ BlockTable[run[r].block].name # "") =>
             requestVariableCache'[KeyOf(r)] = r]_vars

(***************************************************************************)
(* C4: when two invocations of the same named request overlap and neither  *)
(* is cancelled, the entry holds the response of the one whose send        *)
(* completed last, whichever was started first.                            *)
(***************************************************************************)
C4_LastCompletedSendWins ==
    [][\A r \in Runs, r2 \in Runs :
          (/\ r # r2
           /\ run[r2].pc = "history"
           /\ ResponseReceived(r)
           /\ KeyOf(r) = KeyOf(r2)) =>
             /\ requestVariableCache'[KeyOf(r)] = r
             /\ requestVariableCache'[KeyOf(r)] # r2]_vars

C6_MissingEntryIsWarning ==
    hover.inRange =>
       /\ hover.missing => (hover.warning /\ ~hover.error /\ hover.result = "undefined")
       /\ hover.result = "hover" <=> (~hover.warning /\ ~hover.error)
       /\ hover.result \in {"hover", "undefined"}

\* provideHover on a reference to a request that an invocation is still sending
C6_HoverOnMissingEntry ==
    /\ hover.inRange
    /\ hover.missing
    /\ hover.result = "undefined"
    /\ \E r \in Runs : run[r].pc = "sending"

(***************************************************************************)
(* C7: resolution terminates.  A chain never holds a name twice and never  *)
(* exceeds the maximum depth; every span ends as a value, a warning or an  *)
(* error; when a lookup yields a name the chain has visited, the span is   *)
(* aborted with a CircularVariableReference error that reports the whole   *)
(* chain, from the placeholder's name along the definitions to the         *)
(* revisited name; and the resolver reaches the end of the field.          *)
(***************************************************************************)
C7_ResolutionTerminates ==
    /\ [](LET chain == resolver.chain
              errors == resolver.errors
              last == resolver.last
          IN
          /\ \A i \in DOMAIN chain, j \in DOMAIN chain : i # j => chain[i] # chain[j]
          /\ Len(chain) <= MaxDepth
          /\ \A k \in DOMAIN resolver.outcomes :
                resolver.outcomes[k] \in {"literal", "value", "warning", "error"}
          /\ \A e \in DOMAIN errors :
                LET c == errors[e].chain IN
                /\ errors[e].kind = "CircularVariableReference"
                /\ c[1] = resolver.field[errors[e].pos].v
                /\ \E i \in 1..(Len(c) - 1) : c[i] = c[Len(c)]
                /\ \A i \in 1..(Len(c) - 1) : resolver.fileVars[c[i]] = Ph(c[i + 1])
                /\ resolver.outcomes[errors[e].pos] = "error"
                /\ resolver.out[errors[e].pos] = resolver.field[errors[e].pos]
          /\ (/\ last.value.kind = "ph"
              /\ \E i \in DOMAIN last.chain : last.chain[i] = last.value.v) =>
                /\ Len(errors) > 0
                /\ errors[Len(errors)].chain = Append(last.chain, last.value.v))
    /\ <>(resolver.phase = "done")

\* a resolved to {{b}} and b resolved to {{a}}: the error names a, b, a
C7_CircularChainReported ==
    /\ resolver.phase = "done"
    /\ Len(resolver.errors) = 1
    /\ Len(resolver.errors[1].chain) = 3
    /\ resolver.errors[1].chain[1] = resolver.errors[1].chain[3]

(***************************************************************************)
(* C8: the value of a name is that of the first provider, in the order     *)
(* system functions, request-variable references, file-scoped variables,   *)
(* environment-profile variables, process environment variables, that      *)
(* recognizes the name; no provider is used while one before it in this    *)
(* order recognizes the name.                                              *)
(***************************************************************************)
C8_FirstProviderInPriorityOrderWins ==
    LET priority == <<"system", "request", "file", "environment", "process">>
        last == resolver.last
    IN
    last.name # "" =>
       IF \A i \in DOMAIN priority : ~CanResolve(priority[i], last.name, resolver)
       THEN last.provider = ""
       ELSE \E i \in DOMAIN priority :
               /\ last.provider = priority[i]
               /\ CanResolve(priority[i], last.name, resolver)
               /\ \A j \in 1..(i - 1) : ~CanResolve(priority[j], last.name, resolver)
               /\ last.value = ProviderResolve(priority[i], last.name,
                                               [resolver EXCEPT !.draws = last.draws])

\* a system function answered although the file, the profile and the process know the name
C8_HigherPriorityShadows ==
    /\ resolver.last.provider = "system"
    /\ CanResolve("file", resolver.last.name, resolver)
    /\ CanResolve("environment", resolver.last.name, resolver)
    /\ CanResolve("process", resolver.last.name, resolver)
    /\ resolver.last.name = "$guid"
    /\ resolver.last.value = Lit(RandomSource[1])
    /\ resolver.phase = "done"

(***************************************************************************)
(* C9: a placeholder whose name no provider recognizes stays in the output *)
(* as it was written, exactly one UnresolvedVariableWarning names it, and  *)
(* the rest of the field is resolved all the same: the output has a token  *)
(* for every token of the field.                                           *)
(***************************************************************************)
C9_UnrecognizedNameIsKept ==
    resolver.phase = "done" =>
       /\ Len(resolver.out) = Len(resolver.field)
       /\ Len(resolver.outcomes) = Len(resolver.field)
       /\ \A i \in DOMAIN resolver.field :
             (/\ resolver.field[i].kind = "ph"
              /\ \A p \in {"system", "request", "file", "environment", "process"} :
                    ~CanResolve(p, resolver.field[i].v, resolver)) =>
                /\ resolver.out[i] = resolver.field[i]
                /\ resolver.outcomes[i] = "warning"
                /\ Cardinality({k \in DOMAIN resolver.warnings :
                                   resolver.warnings[k].pos = i}) = 1
                /\ \A k \in DOMAIN resolver.warnings :
                      resolver.warnings[k].pos = i =>
                         resolver.warnings[k].name = resolver.field[i].v

\* an unrecognized name followed by a placeholder that was given its value
C9_ResolvedAfterUnrecognized ==
    /\ resolver.phase = "done"
    /\ Len(resolver.field) = 2
    /\ resolver.field[1].kind = "ph"
    /\ \A p \in {"system", "request", "file", "environment", "process"} :
          ~CanResolve(p, resolver.field[1].v, resolver)
    /\ resolver.out[1] = resolver.field[1]
    /\ Len(resolver.warnings) = 1
    /\ resolver.field[2].kind = "ph"
    /\ resolver.out[2].kind = "lit"

(***************************************************************************)
(* C10: a request keeps the method, url, headers and body the parser gave  *)
(* it, whatever step follows (scripts, send, tests, rendering, history),   *)
(* so rerun() sends what the first run was parsed to.                      *)
(***************************************************************************)
C10_DescriptorImmutable ==
    \A q \in Runs :
       request[q].block # NoBlock =>
          request[q].content = ParsedDescriptor(request[q].block)

(***************************************************************************)
(* C11: the step in which the parse of an invocation's block fails ends    *)
(* that invocation and nothing else: nothing is sent, the status entry,    *)
(* the last request/settings tuple, the pending request, the cache, the    *)
(* requests and the other invocations stay as they are; and no invocation  *)
(* of a malformed block ever has a request, so none is sent.               *)
(***************************************************************************)
C11_SyntaxErrorEndsOnlyItsRun ==
    [][/\ \A r \in Runs :
             (/\ run[r].pc \in {"idle", "confirming"}
              /\ run'[r].pc = "done"
              /\ lastStep' = Step(r, {"SyntaxError"})) =>
                /\ requestStatusEntry' = requestStatusEntry
                /\ lastRequestSettingTuple' = lastRequestSettingTuple
                /\ lastPendingRequest' = lastPendingRequest
                /\ requestVariableCache' = requestVariableCache
                /\ request' = request
                /\ \A r2 \in Runs \ {r} : run'[r2] = run[r2]
       /\ \A r \in Runs :
             run'[r].block # NoBlock /\ BlockTable[run'[r].block].malformed =>
                /\ run'[r].pc \notin {"parsed", "script", "sending", "history", "hung"}
                /\ run'[r].req = NoRequest]_vars

\* the parse of a block failed while the request of a sibling block is being sent
C11_SyntaxErrorBesideSibling ==
    \E r \in Runs, r2 \in Runs :
       /\ lastStep = Step(r, {"SyntaxError"})
       /\ run[r].pc = "done"
       /\ run[r2].pc = "sending"
       /\ requestStatusEntry = "Pending"
       /\ lastPendingRequest = run[r2].req

(***************************************************************************)
(* C12: createRequestParser returns one of the two parsers, and it is the  *)
(* curl parser exactly when the text, after any whitespace in front of it, *)
(* goes on with the letters c, u, r, l in either case.                     *)
(***************************************************************************)
C12_ParserChosenByCurlPrefix ==
    factory.parser # "" =>
       LET text == factory.rawRequest
           startsWithCurl ==
              \E k \in 0..Len(text) :
                 /\ \A i \in 1..k : text[i] \in {" ", "\n"}
                 /\ Len(text) >= k + 4
                 /\ text[k + 1] \in {"c", "C"}
                 /\ text[k + 2] \in {"u", "U"}
                 /\ text[k + 3] \in {"r", "R"}
                 /\ text[k + 4] \in {"l", "L"}
       IN
       /\ factory.parser \in {"CurlRequestParser", "HttpRequestParser"}
       /\ factory.parser = "CurlRequestParser" <=> startsWithCurl

\* whitespace, then cUrL: the curl parser
C12_MixedCaseCurlAfterWhitespace ==
    /\ factory.parser = "CurlRequestParser"
    /\ Len(factory.rawRequest) >= 5
    /\ factory.rawRequest[1] = "\n"
    /\ \E i \in DOMAIN factory.rawRequest : factory.rawRequest[i] = "U"

(***************************************************************************)
(* C13: whenever a send is in flight, cancel() sets the cancellation flag  *)
(* of the request of some invocation whose send is in flight, also when    *)
(* invocations overlap and one started later has finished.                 *)
(***************************************************************************)
C13_CancelFlagsAnInFlightRequest ==
    [][(/\ lastStep' = Step(0, {"Cancelled"})
        /\ \E r \in Runs : run[r].pc = "sending") =>
          \E r \in Runs :
             /\ run[r].pc = "sending"
             /\ request'[run[r].req].isCancelled]_vars

(***************************************************************************)
(* C14: provideHover and the parse/resolution pass of run() leave the      *)
(* cache as it is; the cache changes only in the step in which the         *)
(* controller receives a response and stores it.                           *)
(***************************************************************************)
C14_CacheOnlyReadByLookup ==
    [][/\ hover' # hover => requestVariableCache' = requestVariableCache
       /\ \A r \in Runs :
             (run[r].pc # "parsed" /\ run'[r].pc = "parsed") =>
                requestVariableCache' = requestVariableCache
       /\ requestVariableCache' # requestVariableCache =>
             /\ hover' = hover
             /\ \E r \in Runs : ResponseReceived(r) /\ "cache" \in lastStep'.effects]_vars

\* a hover and a parse pass that both found the stored response of A
C14_StoredResponseRead ==
    /\ hover.inRange
    /\ hover.result = "hover"
    /\ \E r \in Runs :
          /\ run[r].pc = "parsed"
          /\ Len(run[r].resolved) = 2
          /\ ~run[r].resolved[1].warning
    /\ requestVariableCache[<<"d1", "A">>] # NoResponse

C16_BlockCountAndOrder ==
    selector.phase = "done" =>
       LET doc == selector.doc
           blocks == selector.blocks
           delimiters ==
              {i \in DOMAIN doc :
                  \E k \in 0..Len(doc[i]) :
                     /\ \A j \in 1..k : doc[i][j] = " "
                     /\ Len(doc[i]) >= k + 3
                     /\ \A j \in (k + 1)..(k + 3) : doc[i][j] = "#"}
           starts == {1} \cup {i + 1 : i \in delimiters}
           EndOf(st) == IF \E i \in delimiters : i >= st
                        THEN (CHOOSE i \in delimiters :
                                 i >= st /\ \A j \in delimiters : j >= st => i <= j) - 1
                        ELSE Len(doc)
           empty == {st \in starts :
                        \A i \in st..EndOf(st) : IsBlank(doc[i]) \/ IsMetadata(doc[i])}
       IN
       /\ Len(blocks) = Cardinality(delimiters) + 1 - Cardinality(empty)
       /\ \A k \in DOMAIN blocks :
             /\ 1 <= blocks[k].first
             /\ blocks[k].first <= blocks[k].last
             /\ blocks[k].last <= Len(doc)
       /\ \A k \in 1..(Len(blocks) - 1) : blocks[k].last < blocks[k + 1].first

\* two blocks around an indented delimiter, and text with ### inside a line
C16_IndentedDelimiterSplits ==
    /\ selector.phase = "done"
    /\ selector.doc = <<<<"x", "#", "#", "#">>, <<" ", "#", "#", "#">>, <<"x">>>>
    /\ selector.blocks = <<[first |-> 1, last |-> 1], [first |-> 3, last |-> 3]>>

C18_SendAfterSelectAndParse ==
    [][\A r \in Runs :
          (/\ run[r].pc # "sending"
           /\ run'[r].pc = "sending"
           /\ run'[r].kind = "run") =>
             /\ run[r].pc \in {"parsed", "script"}
             /\ run'[r].block \in Blocks
             /\ ~BlockTable[run'[r].block].malformed
             /\ run'[r].req = r
             /\ request'[r].block = run'[r].block
             /\ request'[r].content = ParsedDescriptor(run'[r].block)]_vars

C20_EveryRunLeavesPending ==
    /\ [][\A r \in Runs :
             (run[r].pc \in {"script", "sending"} /\ run'[r].pc \notin {"script", "sending"}) =>
                \/ run'[r].pc = "history" /\ requestStatusEntry' = "Received"
                \/ run'[r].pc = "done" /\ requestStatusEntry' = "Error"
                \/ run'[r].pc = "done" /\ run[r].cancelCalled]_vars
    /\ \A r \in Runs : InRunCore(r) ~> run[r].pc = "done"
    /\ \A r \in Runs, q \in Runs :
          (InRunCore(r) /\ run[r].req = q) ~> lastPendingRequest # q

(***************************************************************************)
(* C21: the pending request is undefined or the request of an invocation   *)
(* that is in runCore; the step in which an invocation leaves runCore      *)
(* leaves the pending request as it is when the invocation that entered    *)
(* runCore last among those in flight is another one and the pending       *)
(* request is that one's; and cancel() sets the cancellation flag only of  *)
(* a request of an invocation that is in runCore.                          *)
(***************************************************************************)
C21_PendingMarkerOfNewestRun ==
    /\ [](\/ lastPendingRequest = NoRequest
          \/ \E r \in Runs : InRunCore(r) /\ run[r].req = lastPendingRequest)
    /\ [][\A r \in Runs, n \in Runs :
             ( /\ InRunCore(r) /\ InRunCore(n)
               /\ run[n].entered > run[r].entered
               /\ \A m \in Runs : run[m].entered <= run[n].entered
               /\ lastPendingRequest = run[n].req
               /\ run'[r].pc = "done" )
             => lastPendingRequest' = lastPendingRequest]_vars
    /\ [][\A q \in Runs :
             (request'[q].isCancelled /\ ~request[q].isCancelled)
             => \E r \in Runs : InRunCore(r) /\ run[r].req = q]_vars

(***************************************************************************)
(* C22: an invocation that has set the status entry to Received sets it    *)
(* to Error in no later step and shows no error message of a failed send,  *)
(* whatever happens to the preview and to the write of the history.        *)
(***************************************************************************)
C22_ReceivedIsNeverTurnedIntoError ==
    [][\A r \in Runs :
          (run[r].pc = "history" /\ lastStep'.run = r /\ run'[r].pc = "done")
          => /\ "Error" \notin lastStep'.effects
             /\ "errorMessage" \notin lastStep'.effects]_vars

(***************************************************************************)
(* C23: the pre-request scripts of an invocation run one after the other   *)
(* in list order, and the send is called in the step in which the last of  *)
(* them returns, never before.  A step in which a script ends without the  *)
(* next script or the send being started is a script that threw: it ends   *)
(* the invocation, the status entry is Error after it, and it caches,      *)
(* renders, sends and persists nothing.                                    *)
(***************************************************************************)
C23_ScriptsInOrderBeforeSend ==
    [][\A r \in Runs :
          LET scripts == BlockTable[request[run[r].req].block].scripts IN
          /\ (run[r].pc = "script" /\ run'[r].pc = "script"
              /\ run'[r].script # run[r].script)
                => run'[r].script = run[r].script + 1 /\ run'[r].script <= scripts
          /\ (run[r].pc # "sending" /\ run'[r].pc = "sending" /\ run'[r].script = 0
              /\ run[r].pc = "script")
                => run[r].script = scripts
          /\ (run[r].pc # "sending" /\ run'[r].pc = "sending" /\ run[r].pc # "script")
                => BlockTable[request'[run'[r].req].block].scripts = 0
          /\ (run[r].pc = "script" /\ run'[r].pc \notin {"script", "sending"})
                => /\ run'[r].pc = "done"
                   /\ requestStatusEntry' = "Error"
                   /\ lastStep'.effects \cap {"send", "cache", "render", "history"} = {}
                   /\ requestVariableCache' = requestVariableCache]_vars

(***************************************************************************)
(* C24: an invocation of run() on a block with a note is past the          *)
(* confirmation (parsed, in runCore) only when the user's answer to its    *)
(* confirmation was Yes; the step in which the confirmation settles with   *)
(* any other answer ends the invocation and leaves the status entry, the   *)
(* last request/settings tuple, the pending request, the cache and the     *)
(* requests as they are.                                                   *)
(***************************************************************************)
C24_NoteNeedsYes ==
    /\ [](\A r \in Runs :
            ( /\ run[r].kind = "run"
              /\ run[r].pc \in {"parsed", "script", "sending", "history", "hung"}
              /\ BlockTable[run[r].block].note )
            => run[r].answer = "Yes")
    /\ [][\A r \in Runs :
             (run[r].pc = "confirming" /\ run'[r].pc # "confirming"
              /\ run'[r].answer # "Yes")
             => /\ run'[r].pc = "done"
                /\ UNCHANGED <<requestStatusEntry, lastRequestSettingTuple,
                               lastPendingRequest, requestVariableCache, request>>
                /\ lastStep'.effects = {}]_vars

\* one confirmation was dismissed, the other answered with Yes and its
\* request is being sent
C24_DismissedAndConfirmed ==
    \E r \in Runs, n \in Runs :
       /\ run[r].pc = "done" /\ run[r].answer = "undefined"
       /\ run[n].pc = "sending" /\ run[n].kind = "run" /\ run[n].answer = "Yes"
       /\ BlockTable[run[n].block].note

C26_CloseAllFiresWithLastPanelOnly ==
    [][/\ (Len(webview.panels) > 0 /\ Len(webview'.panels) = 0)
             => (webview'.fired /\ requestStatusEntry' = "Closed")
       /\ Len(webview'.panels) > 0 => ~webview'.fired]_vars

\* every panel that was created, two at least, has been closed: the event
\* fired with the last one and the status entry is Closed
C26_BothPanelsClosed ==
    /\ webview.fired
    /\ webview.created >= 2
    /\ Cardinality(webview.disposed) = webview.created
    /\ requestStatusEntry = "Closed"

(***************************************************************************)
(* C27: when the host calls settle, the promise a call of getChildren      *)
(* returned is resolved in the end, whatever the element is and however    *)
(* the host calls settle.                                                  *)
(***************************************************************************)
C27_GetChildrenResolves ==
    tree.pc = "called" ~> tree.pc = "resolved"

=============================================================================
